---- MODULE Spec2Model ----
(***************************************************************************)
(* CropSense sensor simulator (server-src/sensor_simulator.py).            *)
(*                                                                         *)
(* The model follows main(): construction of the sensors, the initial      *)
(* registration pass, and the endless send loop.  Every HTTP request is    *)
(* one step whose outcome is chosen by the environment:                    *)
(*   "ok200"       a response with status 200                              *)
(*   "rej_json"    a response with another status and a JSON body          *)
(*   "rej_nojson"  a response with another status whose body is not JSON   *)
(*                 (response.json() raises)                               *)
(*   "unreachable" requests.exceptions.ConnectionError                     *)
(* A KeyboardInterrupt may arrive at any step.                             *)
(*                                                                         *)
(* Real numbers are fixed-point integers; the unit is given with each      *)
(* field.  The sinusoidal fields of a reading (temperature, humidity,      *)
(* pressure) and the timestamp are not modelled.                           *)
(***************************************************************************)
EXTENDS Integers, Sequences, FiniteSets, TLC

VARIABLES
    n,          \* args.sensors
    sensors,    \* the list `sensors` of main(): a sequence of SensorSimulator objects
    pc,         \* position of main(): "construct", "regpass", "loop", "sleep"
    idx,        \* loop variable of the for loop main() is in
    callpc,     \* position inside the register/send_reading call in progress, "none" between calls
    call,       \* the call in progress or, between calls, the last one: its requests and messages
    reading,    \* local `reading` of send_reading: <<>> or <<r>>
    draws,      \* the random draws generate_reading consumed for `reading`: <<>> or <<d>>
    lastReg,    \* history: per sensor, the outcome of its most recent registration request
    exit,       \* "running", "clean" (final message, exit code 0), or the uncaught exception
    intAt       \* history: the position of main() at which the interrupt arrived, or "none"

vars == <<n, sensors, pc, idx, callpc, call, reading, draws, lastReg, exit, intAt>>

----------------------------------------------------------------------------
(* Bounds *)

MaxNodes == 3        \* node counts explored by the transport model
MaxSensors == 7      \* node counts explored by the construction model
MaxOffset == 1       \* phase offsets are drawn from 0..MaxOffset
MaxR0Steps == 99     \* mq2_r0 draws: R0Base + 0..MaxR0Steps thousandths
MaxKCoarse == 5      \* mq2 factor draws: KBase + (0..MaxKCoarse) tenths ...
MaxKFine == 99       \* ... + (0..MaxKFine) hundred-thousandths
MaxGasSteps == 1     \* gas noise draws, in standard deviations: -MaxGasSteps..MaxGasSteps

----------------------------------------------------------------------------
(* Program constants *)

BaselineHealthy == 150      \* KOhm
BaselineInfected == 50      \* KOhm
R0Base == 320000            \* BASELINES['mq2_r0'] = 320.0, in thousandths
KBase == 300000             \* the 3 of (3 + gauss(0, 0.2)), in hundred-thousandths

Outcomes == {"ok200", "rej_json", "rej_nojson", "unreachable"}

----------------------------------------------------------------------------
(* Formatting of names: f'{num:0{w}d}' as a sequence of decimal digits *)

RECURSIVE Digits(_)
Digits(num) == IF num < 10 THEN <<num>> ELSE Digits(num \div 10) \o <<num % 10>>

RECURSIVE ZeroPad(_, _)
ZeroPad(ds, w) == IF Len(ds) >= w THEN ds ELSE ZeroPad(<<0>> \o ds, w)

Fmt(num, w) == ZeroPad(Digits(num), w)

----------------------------------------------------------------------------
(* Construction *)

DiseaseFor_first(i) == IF i % 3 # 0 THEN "healthy" ELSE "infected"

\* main(), line 141: i is the 0-indexed position
DiseaseFor(i) == IF i % 3 # 2 THEN "healthy" ELSE "infected"

\* SensorSimulator.__init__, line 35
GasResistanceBase(disease_status) ==
    IF disease_status = "healthy" THEN BaselineHealthy ELSE BaselineInfected

\* SensorSimulator.__init__: offset is the value random.uniform returned
NewSensor(name, location, plant_id, disease_status, offset) ==
    [ name |-> name,
      location |-> location,
      plant_id |-> plant_id,
      disease_status |-> disease_status,
      time_offset |-> offset,
      registered |-> FALSE,
      gas_resistance_base |-> GasResistanceBase(disease_status) ]

NoCall == [fn |-> "none", node |-> 0, entry |-> FALSE, log |-> <<>>, out |-> <<>>, state |-> "none"]

InitWith(counts) ==
    /\ n \in counts
    /\ sensors = <<>>
    /\ pc = "construct"
    /\ idx = 0
    /\ callpc = "none"
    /\ call = NoCall
    /\ reading = <<>>
    /\ draws = <<>>
    /\ lastReg = <<>>
    /\ exit = "running"
    /\ intAt = "none"

Init == InitWith(0..MaxNodes)

\* main(), lines 139-148: one iteration of the construction loop
ConstructNode ==
    /\ exit = "running"
    /\ pc = "construct"
    /\ idx < n
    /\ \E offset \in 0..MaxOffset :
         LET sensor_num == idx + 1
         IN sensors' = Append(sensors,
                NewSensor([prefix |-> "sensor_", digits |-> Fmt(sensor_num, 2)],
                          [prefix |-> "greenhouse_zone_", digits |-> Digits(sensor_num)],
                          [prefix |-> "plant_", digits |-> Fmt(sensor_num, 3)],
                          DiseaseFor(idx), offset))
    /\ lastReg' = Append(lastReg, "none")
    /\ idx' = idx + 1
    /\ UNCHANGED <<n, pc, callpc, call, reading, draws, exit, intAt>>

\* main(), lines 139 and 150-156: the construction loop ends, the registration pass begins
ConstructDone ==
    /\ exit = "running"
    /\ pc = "construct"
    /\ idx = n
    /\ pc' = "regpass"
    /\ idx' = 1
    /\ UNCHANGED <<n, sensors, callpc, call, reading, draws, lastReg, exit, intAt>>

NextConstruct == ConstructNode \/ ConstructDone

SpecConstruct == InitWith(0..MaxSensors) /\ [][NextConstruct]_vars

----------------------------------------------------------------------------
(* generate_reading *)

Abs(x) == IF x < 0 THEN 0 - x ELSE x

\* round(x / u): Python's round, exact ties go to the even neighbour (x >= 0, u even)
RoundDiv(x, u) ==
    LET q == x \div u
        r == x % u
    IN IF 2 * r > u THEN q + 1
       ELSE IF 2 * r < u THEN q
       ELSE IF q % 2 = 0 THEN q ELSE q + 1

\* A product too wide for one machine integer: the value is hi * 1000 + lo.
\* line 74: mq2_rs = mq2_r0 * (3 + gauss), r0m in 1e-3, k5 in 1e-5, the product in 1e-8
Mq2RsUnrounded(r0m, k5) ==
    LET a == r0m * (k5 \div 1000)
        b == r0m * (k5 % 1000)
    IN [hi |-> a + (b \div 1000), lo |-> b % 1000]

\* round(mq2_rs, 2), line 89: the wide value in 1e-8 rounded to 1e-2
RoundWide(w) ==
    LET q == w.hi \div 1000
        r == (w.hi % 1000) * 1000 + w.lo
    IN IF 2 * r > 1000000 THEN q + 1
       ELSE IF 2 * r < 1000000 THEN q
       ELSE IF q % 2 = 0 THEN q ELSE q + 1

\* w / d by long division, in 1e-5 when w is in 1e-8 and d in 1e-3
DivWide(w, d) == (w.hi \div d) * 1000 + (((w.hi % d) * 1000 + w.lo) \div d)

Mq2Ratio_rounded(r0m, k5) ==
    RoundDiv((RoundWide(Mq2RsUnrounded(r0m, k5)) * 10000) \div RoundDiv(r0m, 100), 100)

\* lines 75 and 90: round(mq2_rs / mq2_r0, 3) from the unrounded values, in 1e-3
Mq2Ratio(r0m, k5) == RoundDiv(DivWide(Mq2RsUnrounded(r0m, k5), r0m), 100)

\* lines 69-70 and 88: gz is the gauss draw in 1e-4 standard deviations, the
\* standard deviation is gas_resistance_base * 0.1; the result is in 1e-2 KOhm
GasResistance(base, gz) == RoundDiv(base * 100000 + gz * base, 1000)

\* generate_reading, lines 52-95, for the draws d
GenerateReading(self, d) ==
    [ name |-> self.name,
      plant_id |-> self.plant_id,
      disease_status |-> self.disease_status,
      gasResistance |-> GasResistance(self.gas_resistance_base, d.gz),
      mq2_rs |-> RoundWide(Mq2RsUnrounded(d.r0m, d.k5)),     \* 1e-2
      mq2_ratio |-> Mq2Ratio(d.r0m, d.k5),                   \* 1e-3
      mq2_r0 |-> RoundDiv(d.r0m, 100) ]                      \* 1e-1

GasStep == 3331

\* the exact product r0m * k5 lies halfway between two hundredths
ProductAtMidpoint(r0m, k5) ==
    LET w == Mq2RsUnrounded(r0m, k5)
    IN (w.hi % 1000) * 1000 + w.lo = 500000

\* The draws of random.gauss explored: mq2_r0, the mq2 factor and the gas noise.
\* A draw is a double: the decimal midpoints 320.05 and 3.x0050, which no
\* double equals, are left out, and so are the draws whose exact product is a
\* decimal midpoint, which the product of the doubles misses on either side.
DrawSet(r0steps, kcoarse, kfine, gsteps) ==
    { d \in { [r0m |-> R0Base + a, k5 |-> KBase + 10000 * b + c, gz |-> GasStep * g] :
                a \in {x \in 0..r0steps : x % 100 # 50}, b \in 0..kcoarse,
                c \in {x \in 0..kfine : x % 100 # 50}, g \in gsteps } :
        ~ProductAtMidpoint(d.r0m, d.k5) }

MainDraws == DrawSet(0, 0, 0, {0 - MaxGasSteps, MaxGasSteps})

----------------------------------------------------------------------------
(* register and send_reading *)

SetRegistered_all(s, i, v) == [j \in 1..Len(s) |-> [s[j] EXCEPT !.registered = v]]

\* self.registered = v on the i-th sensor (lines 46 and 111)
SetRegistered(s, i, v) == [s EXCEPT ![i].registered = v]

RegisteredAfter_any(o, flag) == IF o # "unreachable" THEN TRUE ELSE flag

\* register, lines 39-50: the flag once the request has been answered with o
RegisteredAfter(o, flag) == IF o = "ok200" THEN TRUE ELSE flag

\* register, line 48: response.json() raises on a body that is not JSON
RegisterRaises(o) == o = "rej_nojson"

\* register, lines 45, 48, 50: the messages printed
RegisterOut(o) ==
    CASE o = "ok200" -> <<"registered">>
      [] o = "rej_json" -> <<"registration_failed">>
      [] o = "rej_nojson" -> <<>>
      [] o = "unreachable" -> <<"connection_failed_is_server_running">>

InvalidatedFlag_keep(flag) == flag

\* send_reading, line 111
InvalidatedFlag(flag) == FALSE

RetriesAfter_conn(o) == o # "ok200"

\* send_reading, lines 105-108 and 120: the first update is retried after a
\* response with another status than 200
RetriesAfter(o) == o \in {"rej_json", "rej_nojson"}

\* send_reading, line 119: response.json() raises on a body that is not JSON
RetryRaises(o) == o = "rej_nojson"

\* main(), lines 165-171: the statements inside try ... except KeyboardInterrupt
InTry(p) == p \in {"loop", "sleep"}

Req(kind, o) == [kind |-> kind, outcome |-> o]

\* the effect of self.register() on the i-th sensor, the request answered with o
Register(i, o) ==
    /\ sensors' = SetRegistered(sensors, i, RegisteredAfter(o, sensors[i].registered))
    /\ lastReg' = [lastReg EXCEPT ![i] = o]

\* main(), line 157: sensor.register() of the registration pass
RegPassRegister ==
    /\ exit = "running"
    /\ pc = "regpass"
    /\ callpc = "none"
    /\ idx <= n
    /\ \E o \in Outcomes :
         /\ Register(idx, o)
         /\ call' = [fn |-> "register", node |-> idx, entry |-> sensors[idx].registered,
                     log |-> <<Req("register", o)>>, out |-> RegisterOut(o),
                     state |-> IF RegisterRaises(o) THEN "raised" ELSE "returned"]
         /\ callpc' = IF RegisterRaises(o) THEN "none" ELSE "reg_sleep"
         /\ exit' = IF RegisterRaises(o) THEN "JSONDecodeError" ELSE exit
    /\ UNCHANGED <<n, pc, idx, reading, draws, intAt>>

\* main(), line 158: time.sleep(0.1), then the next sensor
RegPassSleep ==
    /\ exit = "running"
    /\ pc = "regpass"
    /\ callpc = "reg_sleep"
    /\ callpc' = "none"
    /\ idx' = idx + 1
    /\ UNCHANGED <<n, sensors, pc, call, reading, draws, lastReg, exit, intAt>>

\* main(), lines 156 and 160-167: the registration pass ends, the first tick begins
RegPassDone ==
    /\ exit = "running"
    /\ pc = "regpass"
    /\ callpc = "none"
    /\ idx = n + 1
    /\ pc' = "loop"
    /\ idx' = 1
    /\ UNCHANGED <<n, sensors, callpc, call, reading, draws, lastReg, exit, intAt>>

\* main(), line 168 and send_reading, line 99
SendEnter ==
    /\ exit = "running"
    /\ pc = "loop"
    /\ callpc = "none"
    /\ idx <= n
    /\ call' = [fn |-> "send_reading", node |-> idx, entry |-> sensors[idx].registered,
                log |-> <<>>, out |-> <<>>, state |-> "active"]
    /\ callpc' = IF sensors[idx].registered THEN "sr_generate" ELSE "sr_register"
    /\ UNCHANGED <<n, sensors, pc, idx, reading, draws, lastReg, exit, intAt>>

\* the call of send_reading ends: it returns to the loop or raises out of it
Leave(raises, log, out) ==
    /\ call' = [call EXCEPT !.log = log, !.out = out,
                            !.state = IF raises THEN "raised" ELSE "returned"]
    /\ callpc' = "none"
    /\ reading' = <<>>
    /\ draws' = <<>>
    /\ idx' = IF raises THEN idx ELSE idx + 1
    /\ exit' = IF raises THEN "JSONDecodeError" ELSE exit

\* self.register() inside send_reading, answered with o; send_reading continues at `next`
RegisterInSend(o, next) ==
    /\ Register(call.node, o)
    /\ IF RegisterRaises(o)
       THEN Leave(TRUE, Append(call.log, Req("register", o)), call.out \o RegisterOut(o))
       ELSE /\ call' = [call EXCEPT !.log = Append(@, Req("register", o)),
                                    !.out = @ \o RegisterOut(o)]
            /\ callpc' = next
            /\ UNCHANGED <<idx, reading, draws, exit>>

\* send_reading, line 100
SendRegister ==
    /\ exit = "running"
    /\ callpc = "sr_register"
    /\ \E o \in Outcomes : RegisterInSend(o, "sr_generate")
    /\ UNCHANGED <<n, pc, intAt>>

\* send_reading, line 102
SendGenerate ==
    /\ exit = "running"
    /\ callpc = "sr_generate"
    /\ \E d \in MainDraws :
         /\ reading' = <<GenerateReading(sensors[call.node], d)>>
         /\ draws' = <<d>>
    /\ callpc' = "sr_update"
    /\ UNCHANGED <<n, sensors, pc, idx, call, lastReg, exit, intAt>>

\* send_reading, lines 104-111 and 120-121: the first update request
SendUpdate ==
    /\ exit = "running"
    /\ callpc = "sr_update"
    /\ \E o \in Outcomes :
         LET log == Append(call.log, Req("update", o))
         IN IF o = "ok200"
            THEN /\ Leave(FALSE, log, Append(call.out, "sent"))
                 /\ UNCHANGED sensors
            ELSE IF RetriesAfter(o)
            THEN /\ sensors' = SetRegistered(sensors, call.node,
                                    InvalidatedFlag(sensors[call.node].registered))
                 /\ call' = [call EXCEPT !.log = log,
                                         !.out = Append(@, "update_failed_reregistering")]
                 /\ callpc' = "sr_reregister"
                 /\ UNCHANGED <<idx, reading, draws, exit>>
            ELSE /\ Leave(FALSE, log, Append(call.out, "connection_failed"))
                 /\ UNCHANGED sensors
    /\ UNCHANGED <<n, pc, lastReg, intAt>>

\* send_reading, line 112
SendReregister ==
    /\ exit = "running"
    /\ callpc = "sr_reregister"
    /\ \E o \in Outcomes : RegisterInSend(o, "sr_retry")
    /\ UNCHANGED <<n, pc, intAt>>

\* send_reading, lines 114-121: the second update request
SendRetry ==
    /\ exit = "running"
    /\ callpc = "sr_retry"
    /\ \E o \in Outcomes :
         LET log == Append(call.log, Req("update", o))
         IN CASE o = "ok200" -> Leave(FALSE, log, Append(call.out, "sent"))
              [] o = "unreachable" -> Leave(FALSE, log, Append(call.out, "connection_failed"))
              [] o \in {"rej_json", "rej_nojson"} ->
                    IF RetryRaises(o)
                    THEN Leave(TRUE, log, call.out)
                    ELSE Leave(FALSE, log, Append(call.out, "update_still_failed"))
    /\ UNCHANGED <<n, sensors, pc, lastReg, intAt>>

\* main(), lines 167-169: every sensor has sent, the tick ends
TickEnd ==
    /\ exit = "running"
    /\ pc = "loop"
    /\ callpc = "none"
    /\ idx = n + 1
    /\ pc' = "sleep"
    /\ UNCHANGED <<n, sensors, idx, callpc, call, reading, draws, lastReg, exit, intAt>>

\* main(), lines 169 and 166-167: time.sleep(args.interval) returns, the next tick begins
Sleep ==
    /\ exit = "running"
    /\ pc = "sleep"
    /\ pc' = "loop"
    /\ idx' = 1
    /\ UNCHANGED <<n, sensors, callpc, call, reading, draws, lastReg, exit, intAt>>

\* what main() is doing: constructing ("startup"), in the registration pass of
\* lines 156-158 ("regpass"), printing lines 160-162 ("banner"), inside a
\* send_reading call ("send"), between two of them ("loop"), or in line 169 ("sleep")
Where ==
    CASE pc = "construct" -> "startup"
      [] pc = "regpass" -> IF idx <= n THEN "regpass" ELSE "banner"
      [] pc = "loop" -> IF callpc # "none" THEN "send" ELSE "loop"
      [] pc = "sleep" -> "sleep"

\* KeyboardInterrupt: caught by main(), lines 170-171, when raised inside the try
Interrupt ==
    /\ exit = "running"
    /\ intAt' = Where
    /\ exit' = IF InTry(pc) THEN "clean" ELSE "KeyboardInterrupt"
    /\ UNCHANGED <<n, sensors, pc, idx, callpc, call, reading, draws, lastReg>>

Next ==
    \/ ConstructNode
    \/ ConstructDone
    \/ RegPassRegister
    \/ RegPassSleep
    \/ RegPassDone
    \/ SendEnter
    \/ SendRegister
    \/ SendGenerate
    \/ SendUpdate
    \/ SendReregister
    \/ SendRetry
    \/ TickEnd
    \/ Sleep
    \/ Interrupt

Spec == Init /\ [][Next]_vars

----------------------------------------------------------------------------
(* generate_reading on its own: the draws are the inputs *)

InitReading ==
    /\ n = 1
    /\ \E i \in {0, 2} :
         sensors = <<NewSensor([prefix |-> "sensor_", digits |-> Fmt(i + 1, 2)],
                               [prefix |-> "greenhouse_zone_", digits |-> Digits(i + 1)],
                               [prefix |-> "plant_", digits |-> Fmt(i + 1, 3)],
                               DiseaseFor(i), 0)>>
    /\ pc = "generate"
    /\ idx = 1
    /\ callpc = "none"
    /\ call = NoCall
    /\ reading = <<>>
    /\ draws \in { <<d>> : d \in DrawSet(MaxR0Steps, MaxKCoarse, MaxKFine,
                                          (0 - MaxGasSteps)..MaxGasSteps) }
    /\ lastReg = <<"none">>
    /\ exit = "running"
    /\ intAt = "none"

\* generate_reading, lines 72-95
Generate ==
    /\ pc = "generate"
    /\ reading' = <<GenerateReading(sensors[1], draws[1])>>
    /\ pc' = "generated"
    /\ UNCHANGED <<n, sensors, idx, callpc, call, draws, lastReg, exit, intAt>>

NextReading == Generate

SpecReading == InitReading /\ [][NextReading]_vars

----------------------------------------------------------------------------
(* Properties *)

Last(s) == s[Len(s)]

Rejected == {"rej_json", "rej_nojson"}

\* position of the first update request in the log of a send_reading call
UpdIdx == IF call.entry THEN 1 ELSE 2

\* the first update request of the send_reading call has been answered with an outcome of S
FirstUpdateIn(S) ==
    /\ call.fn = "send_reading"
    /\ Len(call.log) >= UpdIdx
    /\ call.log[UpdIdx].kind = "update"
    /\ call.log[UpdIdx].outcome \in S

\* after the first update the call made exactly one registration request and
\* then exactly one update request, and reported the result of the latter
RetriedOnce ==
    /\ Len(call.log) = UpdIdx + 2
    /\ call.log[UpdIdx + 1].kind = "register"
    /\ call.log[UpdIdx + 2].kind = "update"
    /\ call.out # <<>>
    /\ IF call.log[UpdIdx + 2].outcome = "ok200"
       THEN Last(call.out) = "sent"
       ELSE Last(call.out) \in {"update_still_failed", "connection_failed"}

\* C1: in send_reading, when the first update is answered with a status other
\* than 200, registered is set to false, exactly one registration request and
\* then exactly one more update request are issued, and the result of the
\* second update is reported (success on 200, failure otherwise).
C1_RetryOnceAfterRejection ==
    FirstUpdateIn(Rejected) =>
        /\ (callpc = "sr_reregister" => ~sensors[call.node].registered)
        /\ (call.state # "active" => RetriedOnce)

FlagBeforeUpdate == IF call.entry THEN TRUE ELSE call.log[1].outcome = "ok200"

C3_NoExceptionEscapes == call.state # "raised" /\ exit # "JSONDecodeError"

\* C4: every call to register issues exactly one registration request, and
\* when it is over the registered flag is true if the answer was 200 and
\* false if the endpoint was unreachable or answered another status.
C4_RegisterSetsFlag ==
    /\ (call.log # <<>> /\ Last(call.log).kind = "register") =>
           (sensors[call.node].registered <=> Last(call.log).outcome = "ok200")
    /\ \A k \in 1..(Len(call.log) - 1) :
           ~(call.log[k].kind = "register" /\ call.log[k + 1].kind = "register")
    /\ call.fn = "register" => Len(call.log) = 1

C4_Witness ==
    /\ call.fn = "send_reading"
    /\ call.entry
    /\ Len(call.log) = 2
    /\ call.log[2] = Req("register", "rej_json")
    /\ ~sensors[call.node].registered

\* C5: a send_reading call that starts unregistered makes exactly one
\* registration request and then sends the first update whatever the outcome
\* of the registration; a call that starts registered begins with the update.
C5_RegisterThenUpdate ==
    (call.fn = "send_reading" /\ call.state # "active") =>
        IF call.entry
        THEN call.log # <<>> /\ call.log[1].kind = "update"
        ELSE /\ Len(call.log) >= 2
             /\ call.log[1].kind = "register"
             /\ call.log[2].kind = "update"

\* C6: an interrupt during the registration pass, during a send, between two
\* sends or during the sleep ends the process with the final message and
\* exit code 0.
C6_InterruptExitsCleanly ==
    intAt \in {"regpass", "send", "loop", "sleep"} => exit = "clean"

Infected == {j \in 1..Len(sensors) : sensors[j].disease_status = "infected"}

\* C7: the sensor at 0-indexed position i is infected exactly when i mod 3 = 2
\* and healthy otherwise, with baseline 50.0 when infected and 150.0 when
\* healthy; with three sensors only sensor_03 is infected and its baseline is
\* a third of that of the other two.
C7_EveryThirdInfected ==
    /\ \A j \in 1..Len(sensors) :
         /\ sensors[j].disease_status = (IF (j - 1) % 3 = 2 THEN "infected" ELSE "healthy")
         /\ sensors[j].gas_resistance_base =
                (IF sensors[j].disease_status = "infected" THEN 50 ELSE 150)
    /\ pc # "construct" => Len(sensors) = n
    /\ (pc # "construct" /\ n = 3) =>
         /\ Infected = {3}
         /\ sensors[3].name = [prefix |-> "sensor_", digits |-> <<0, 3>>]
         /\ 3 * sensors[3].gas_resistance_base = sensors[1].gas_resistance_base
         /\ sensors[1].gas_resistance_base = sensors[2].gas_resistance_base

C7_Witness == pc # "construct" /\ n = 6 /\ Infected = {3, 6}

Fixed(s) == <<s.name, s.location, s.plant_id, s.disease_status, s.time_offset,
              s.gas_resistance_base>>

\* C8: no step changes a sensor's name, location, plant id, disease status,
\* phase offset or baseline, and a step changes the registered flag only of
\* the sensor the call in progress is made on.
C8_OnlyRegisteredChanges ==
    [][\A j \in 1..Len(sensors) :
          /\ j <= Len(sensors')
          /\ Fixed(sensors'[j]) = Fixed(sensors[j])
          /\ sensors'[j].registered # sensors[j].registered =>
                (call'.node = j /\ call'.fn \in {"register", "send_reading"})]_vars

C8_Witness ==
    /\ Len(sensors) >= 2
    /\ sensors[1].registered
    /\ ~sensors[2].registered
    /\ call.node = 2
    /\ reading # <<>>
    /\ reading[1].name = sensors[2].name

\* | mq2_ratio - mq2_rs / mq2_r0 | of the emitted fields, times 1000 * mq2_r0
RatioGap(r) == Abs(r.mq2_ratio * r.mq2_r0 - 100 * r.mq2_rs)

\* C9 as claimed: in every reading the emitted mq2_ratio is within 0.001 of
\* the quotient of the emitted mq2_rs by the emitted mq2_r0.
C9_RatioWithinTolerance ==
    reading # <<>> => RatioGap(reading[1]) <= reading[1].mq2_r0

\* C9 as amended: the emitted mq2_ratio is within 0.0005 of the quotient of
\* the unrounded mq2_rs by the unrounded mq2_r0, and within 0.002 of the
\* quotient of the emitted fields.
C9_RatioOfUnrounded ==
    reading # <<>> =>
        /\ Abs(100 * reading[1].mq2_ratio
               - DivWide(Mq2RsUnrounded(draws[1].r0m, draws[1].k5), draws[1].r0m)) <= 50
        /\ RatioGap(reading[1]) <= 2 * reading[1].mq2_r0

C9_Witness ==
    /\ reading # <<>>
    /\ pc = "generated"
    /\ RatioGap(reading[1]) > reading[1].mq2_r0

\* C10: whenever no call on a sensor is in progress, its registered flag is
\* true exactly when its most recent registration request was answered 200.
C10_FlagMatchesLastRegistration ==
    \A j \in 1..Len(sensors) :
        ~(call.state = "active" /\ call.node = j) =>
            (sensors[j].registered <=> lastReg[j] = "ok200")

C10_Witness ==
    /\ call.fn = "send_reading"
    /\ call.state = "returned"
    /\ call.entry
    /\ ~sensors[call.node].registered
    /\ lastReg[call.node] = "unreachable"
    /\ pc = "sleep"

====
